---------------------------- MODULE Spec2Model ----------------------------
(***************************************************************************)
(* A model of the research-node HTTP service (src/app.js): the request     *)
(* pipeline (authMiddleware, performanceLoggingMiddleware, the route       *)
(* handlers), the items table behind it, the performance log file and the  *)
(* three sorting functions of POST /sort.                                  *)
(*                                                                         *)
(* One JavaScript turn is one action.  A db.query is executed by the store *)
(* and its callback is run in the same action: the connection runs one     *)
(* command at a time and the callback is called when the result arrives.   *)
(* A request's headers, query and body are read by nothing before the      *)
(* middleware or handler that uses them, so they are drawn in that action  *)
(* and recorded in the request.                                            *)
(*                                                                         *)
(* Strings the code takes apart (the Authorization header, the id of the   *)
(* query string) are sequences of one-character strings.  An optional      *)
(* value (undefined in JavaScript, NULL in SQL) is None, a present value v *)
(* is Some(v).                                                             *)
(***************************************************************************)
EXTENDS Integers, Sequences, FiniteSets

VARIABLES
    items,      \* the rows of the table items: records [id, name, value]
    autoInc,    \* the table's AUTO_INCREMENT counter: the next id it assigns
    reqs,       \* the requests, by number: their inputs, position and response
    completed,  \* the requests whose response has finished, in that order
    logExists,  \* whether performance_metrics_node.json exists
    log         \* its records, in file order

vars == <<items, autoInc, reqs, completed, logExists, log>>

---------------------------------------------------------------------------
(* Bounds of the model. *)

\* Requests the service receives in one behaviour of Spec.
MaxReq == 2
\* Requests of one behaviour of SpecSeq, handled one after the other.
MaxSeqReq == 3
\* The largest id the AUTO_INCREMENT counter assigns.
MaxId == 4
\* The longest list POST /sort is given in SpecSort.
MaxLen == 4
\* The list elements are 0..MaxVal.
MaxVal == 2

---------------------------------------------------------------------------
(* Optional values and strings. *)

None == <<>>
Some(v) == <<v>>
IsSome(o) == o # None
Val(o) == o[1]

Digits == <<"0", "1", "2", "3", "4", "5", "6", "7", "8", "9">>
DigitChars == {Digits[i] : i \in 1..10}
DigitVal(c) == (CHOOSE i \in 1..10 : Digits[i] = c) - 1

\* String(n) of JavaScript, for a natural number: its decimal digits.
RECURSIVE NatToStr(_)
NatToStr(n) == IF n < 10 THEN <<Digits[n + 1]>>
               ELSE NatToStr(n \div 10) \o <<Digits[(n % 10) + 1]>>

\* The value of a string of digits.
RECURSIVE DigitsToNat(_)
DigitsToNat(s) == IF s = <<>> THEN 0
                  ELSE 10 * DigitsToNat(SubSeq(s, 1, Len(s) - 1)) + DigitVal(s[Len(s)])

\* s without its leading and its trailing blanks.
RECURSIVE TrimLeft(_)
TrimLeft(s) == IF s # <<>> /\ s[1] = " " THEN TrimLeft(Tail(s)) ELSE s
RECURSIVE TrimRight(_)
TrimRight(s) == IF s # <<>> /\ s[Len(s)] = " " THEN TrimRight(SubSeq(s, 1, Len(s) - 1)) ELSE s
Trim(s) == TrimRight(TrimLeft(s))

\* The longest prefix of s made of digits.
RECURSIVE DigitPrefix(_)
DigitPrefix(s) == IF s # <<>> /\ s[1] \in DigitChars THEN <<s[1]>> \o DigitPrefix(Tail(s)) ELSE <<>>

AllDigits(s) == \A i \in 1..Len(s) : s[i] \in DigitChars

\* isNaN(s) of JavaScript for a string s over digits, blanks and letters:
\* Number(s) trims s, takes the empty string as 0 and a string of digits as its
\* value, and is NaN for anything else.
isNaN(s) == ~AllDigits(Trim(s))

\* !v of JavaScript: undefined, the empty string and 0 are falsy.  FalsySeq is
\* for a string kept as a sequence of characters, FalsyText for a name or a
\* value, FalsyNum for a number.
FalsySeq(o) == o = None \/ Val(o) = <<>>
FalsyText(o) == o = None \/ Val(o) = ""
FalsyNum(o) == o = None \/ Val(o) = 0

\* s.startsWith(p) and s.substring(n).
startsWith(s, p) == Len(s) >= Len(p) /\ SubSeq(s, 1, Len(p)) = p
substring(s, n) == SubSeq(s, n + 1, Len(s))

---------------------------------------------------------------------------
(* The sorting functions.  A JavaScript array index k is the TLA+ index    *)
(* k + 1.                                                                  *)

Swap(arr, a, b) == [arr EXCEPT ![a] = arr[b], ![b] = arr[a]]

\* A slip in the inner loop's bound: the last pair of a pass is not compared.
RECURSIVE BubbleInnerShort(_, _, _)
BubbleInnerShort(arr, i, j) ==
    IF j < Len(arr) - i - 2
    THEN BubbleInnerShort(IF arr[j + 1] > arr[j + 2] THEN Swap(arr, j + 1, j + 2) ELSE arr,
                          i, j + 1)
    ELSE arr

\* for (let j = 0; j < len - i - 1; j++) if (arr[j] > arr[j + 1]) swap
RECURSIVE BubbleInner(_, _, _)
BubbleInner(arr, i, j) ==
    IF j < Len(arr) - i - 1
    THEN BubbleInner(IF arr[j + 1] > arr[j + 2] THEN Swap(arr, j + 1, j + 2) ELSE arr,
                     i, j + 1)
    ELSE arr

\* for (let i = 0; i < len; i++) the inner loop
RECURSIVE BubbleOuter(_, _)
BubbleOuter(arr, i) ==
    IF i < Len(arr) THEN BubbleOuter(BubbleInner(arr, i, 0), i + 1) ELSE arr

bubbleSort(arr) == BubbleOuter(arr, 0)

Less(pivot, x) == x < pivot
NotLess(pivot, x) == ~(x < pivot)

\* The first element is the pivot; left takes the later elements below it,
\* right the others, each in the order of the array.
RECURSIVE quickSort(_)
quickSort(arr) ==
    IF Len(arr) <= 1 THEN arr
    ELSE LET pivot == arr[1]
             left == SelectSeq(Tail(arr), LAMBDA x : Less(pivot, x))
             right == SelectSeq(Tail(arr), LAMBDA x : NotLess(pivot, x))
         IN  quickSort(left) \o <<pivot>> \o quickSort(right)

\* while (left <= right) { mid = floor((left + right) / 2); ... }: the place of
\* key among arr[0..i-1], after the elements equal to it.
RECURSIVE BinarySearch(_, _, _, _)
BinarySearch(arr, key, left, right) ==
    IF left <= right
    THEN LET mid == (left + right) \div 2
         IN  IF key < arr[mid + 1]
             THEN BinarySearch(arr, key, left, mid - 1)
             ELSE BinarySearch(arr, key, mid + 1, right)
    ELSE left

\* for (let j = i - 1; j >= left; j--) arr[j + 1] = arr[j]
RECURSIVE ShiftRight(_, _, _)
ShiftRight(arr, j, left) ==
    IF j >= left THEN ShiftRight([arr EXCEPT ![j + 2] = arr[j + 1]], j - 1, left) ELSE arr

\* for (let i = 1; i < arr.length; i++) insert arr[i] at its place
RECURSIVE InsertionOuter(_, _)
InsertionOuter(arr, i) ==
    IF i < Len(arr)
    THEN LET key == arr[i + 1]
             left == BinarySearch(arr, key, 0, i - 1)
             shifted == ShiftRight(arr, i - 1, left)
         IN  InsertionOuter([shifted EXCEPT ![left + 1] = key], i + 1)
    ELSE arr

binaryInsertionSort(arr) == InsertionOuter(arr, 1)

---------------------------------------------------------------------------
(* The store: the tables users and items, and the statements the code sends. *)

Tok1 == <<"t", "1">>
Tok2 == <<"t", "2">>

\* The rows of users.  The service only reads them; a token names one user.
Users == { [username |-> "alice", password |-> "pw1", token |-> Tok1],
           [username |-> "bob", password |-> "pw2", token |-> Tok2] }

\* The rows the table items may hold when the service starts.
Rows0 == { [id |-> 1, name |-> Some("A"), value |-> Some("v")],
           [id |-> 2, name |-> Some("B"), value |-> Some("")] }

\* The number MySQL compares an integer column with when it is given the
\* string s: the blanks before it are skipped, the digits that follow are its
\* value, and a string that starts with no digit is 0.
SqlNumber(s) == DigitsToNat(DigitPrefix(TrimLeft(s)))

\* SELECT username FROM users WHERE token = ?
SelectUsername(token) == {u \in Users : u.token = token}

\* SELECT token FROM users WHERE username = ? AND password = ?
\* (undefined is sent as NULL, which equals nothing)
SelectToken(username, password) ==
    {u \in Users : /\ IsSome(username) /\ u.username = Val(username)
                   /\ IsSome(password) /\ u.password = Val(password)}

\* SELECT id, name, value FROM items WHERE id = ?
SelectItem(table, n) == {row \in table : row.id = n}

\* A SELECT of the last row that orders the wrong way round.
SelectFirst(table) == {row \in table : \A other \in table : other.id >= row.id}

\* SELECT ... FROM items ORDER BY id DESC LIMIT 1
SelectLast(table) == {row \in table : \A other \in table : other.id <= row.id}

\* The id the table gives the next row (id is auto-assigned: the counter),
\* and the counter after it.
AutoId(counter) == counter
AutoNext(counter) == counter + 1

\* An INSERT that binds the name to both columns.
InsertNameTwice(table, id, name, value) == table \cup {[id |-> id, name |-> name, value |-> name]}

\* INSERT INTO items (name, value) VALUES (?, ?): the row gets the id assigned.
Insert(table, id, name, value) == table \cup {[id |-> id, name |-> name, value |-> value]}

\* UPDATE items SET name = ?, value = ? WHERE id = ?
Update(table, n, name, value) ==
    {IF row.id = n THEN [id |-> n, name |-> name, value |-> value] ELSE row : row \in table}

\* DELETE FROM items WHERE id = ?
Delete(table, n) == {row \in table : row.id # n}

---------------------------------------------------------------------------
(* Requests. *)

Idle == [route |-> "", pc |-> "idle", header |-> None, user |-> "",
         id |-> None, bid |-> None, name |-> None, value |-> None,
         username |-> None, password |-> None, list |-> None,
         status |-> 0, body |-> <<>>, perf |-> FALSE, metric |-> "none",
         queries |-> 0, itemOps |-> 0, storeErr |-> FALSE,
         lastItemId |-> 0, newId |-> 0, removed |-> 0, handlerRan |-> FALSE]

\* The routes, by the middleware registered before their handler.
AuthRoutes == {"GET /items", "GET /item", "GET /item/last", "POST /items/create",
               "PUT /item/update", "DELETE /item/delete", "DELETE /item/last/delete",
               "POST /sort"}
PerfOnlyRoutes == {"POST /login", "GET /metrics/delete"}
BareRoutes == {"GET /health"}
Routes == AuthRoutes \cup PerfOnlyRoutes \cup BareRoutes

Bearer == <<"B", "e", "a", "r", "e", "r", " ">>

\* Authorization headers: none, the empty string, a bare token, a lower-case
\* scheme, an empty token, an unknown token, and a user's token.
Headers == {None, Some(<<>>), Some(Tok1),
            Some(<<"b", "e", "a", "r", "e", "r", " ">> \o Tok1),
            Some(Bearer), Some(Bearer \o <<"z">>),
            Some(Bearer \o Tok1)}
ValidHeaders == {Some(Bearer \o Tok1)}

\* The id of a query string: absent, empty, blank, a letter, a digit then a
\* letter, a blank then a digit, and the ids 1 and 3.
IdParams == {None, Some(<<>>), Some(<<" ">>), Some(<<"a">>), Some(<<"1", "a">>),
             Some(<<" ", "2">>), Some(<<"1">>), Some(<<"3">>)}

\* The JSON bodies of POST /items/create: name and value, either of which may
\* be missing or empty.
CreateBodies == { [name |-> Some("C"), value |-> Some("w")],
                  [name |-> Some(""), value |-> Some("")],
                  [name |-> None, value |-> Some("w")] }

\* The JSON bodies of PUT /item/update: id, name and value of a row and of no
\* row, and bodies in which one of them is missing, empty or 0.
UpdateBodies == { [id |-> Some(1), name |-> Some("C"), value |-> Some("w")],
                  [id |-> Some(4), name |-> Some("C"), value |-> Some("w")],
                  [id |-> None, name |-> Some("C"), value |-> Some("w")],
                  [id |-> Some(1), name |-> None, value |-> Some("w")],
                  [id |-> Some(1), name |-> Some("C"), value |-> None],
                  [id |-> Some(1), name |-> Some(""), value |-> Some("w")],
                  [id |-> Some(4), name |-> Some("C"), value |-> Some("")],
                  [id |-> Some(0), name |-> Some("C"), value |-> Some("w")] }

\* The JSON bodies of POST /login.
LoginBodies == { [username |-> Some("alice"), password |-> Some("pw1")],
                 [username |-> Some("bob"), password |-> Some("pw1")],
                 [username |-> None, password |-> None] }

\* The lists of length at most n over 0..MaxVal.
RECURSIVE ListsUpTo(_)
ListsUpTo(n) == IF n = 0 THEN {<<>>}
                ELSE LET shorter == ListsUpTo(n - 1)
                     IN  shorter \cup {Append(l, x) : l \in shorter, x \in 0..MaxVal}
\* The list of a POST /sort body: not an array, or an array.
SortLists == {None} \cup {Some(l) : l \in ListsUpTo(MaxLen)}
FewLists == {None, Some(<<>>), Some(<<2, 1>>)}

\* res.status(status).json(body): the response is written.
Respond(q, status, body) == [q EXCEPT !.status = status, !.body = body, !.pc = "sent"]

\* db.query called once more; err is whether the store fails it.
Queried(q, err) == [q EXCEPT !.queries = @ + 1, !.storeErr = @ \/ err]
\* The same for a statement on the table items.
ItemQueried(q, err) == [Queried(q, err) EXCEPT !.itemOps = @ + 1]

---------------------------------------------------------------------------
(* The middleware. *)

Others(r) == DOMAIN reqs \ {r}
SetReq(r, q) == reqs' = [reqs EXCEPT ![r] = q]

\* performanceLoggingMiddleware: the start time is taken, the listener of the
\* response's finish event is registered, and next() runs the handler's first
\* statements.
performanceLoggingMiddleware(q) == [q EXCEPT !.perf = TRUE, !.pc = "handler"]

\* A gate that lets a header through whatever its scheme.
authHeaderRejectedLax(h) == FalsySeq(h)

\* if (!authHeader || !authHeader.startsWith('Bearer '))
authHeaderRejected(h) == FalsySeq(h) \/ ~startsWith(Val(h), Bearer)

\* authMiddleware, from the header h and the store's answer to its lookup.
authResult(q0, h, err) ==
    LET q == [q0 EXCEPT !.header = h]
    IN  IF authHeaderRejected(h)
        THEN Respond(q, 401, <<"error", "Unauthorized">>)
        ELSE LET token == substring(Val(h), 7)
                 results == SelectUsername(token)
                 q1 == Queried(q, err)
             IN  IF err THEN Respond(q1, 500, <<"error", "Database error">>)
                 ELSE IF results = {} THEN Respond(q1, 401, <<"error", "Unauthorized">>)
                 ELSE performanceLoggingMiddleware(
                          [q1 EXCEPT !.user = (CHOOSE u \in results : TRUE).username])

\* A request arrives at one of `routes`.  Requests are numbered as they arrive.
Receive(r, routes) ==
    /\ reqs[r].pc = "idle"
    /\ \A p \in Others(r) : p < r => reqs[p].pc # "idle"
    /\ \E route \in routes :
          LET q == [Idle EXCEPT !.route = route]
          IN  SetReq(r, IF route \in AuthRoutes THEN [q EXCEPT !.pc = "auth"]
                        ELSE IF route \in PerfOnlyRoutes THEN performanceLoggingMiddleware(q)
                        ELSE [q EXCEPT !.pc = "handler"])
    /\ UNCHANGED <<items, autoInc, completed, logExists, log>>

\* The same, when every earlier request's response has finished.
ReceiveSeq(r, routes) ==
    /\ \A p \in Others(r) : p < r => reqs[p].pc = "done"
    /\ Receive(r, routes)

authMiddleware(r, headers) ==
    /\ reqs[r].pc = "auth"
    /\ \E h \in headers, err \in BOOLEAN : SetReq(r, authResult(reqs[r], h, err))
    /\ UNCHANGED <<items, autoInc, completed, logExists, log>>

\* logPerformanceMetrics up to its call of fs.appendFile: the append is started.
logPerformanceMetrics(q) == [q EXCEPT !.metric = "pending"]

\* The response's finish event: its listeners run.
Finish(r) ==
    /\ reqs[r].pc = "sent"
    /\ SetReq(r, LET q == [reqs[r] EXCEPT !.pc = "done"]
                 IN  IF q.perf THEN logPerformanceMetrics(q) ELSE q)
    /\ completed' = Append(completed, r)
    /\ UNCHANGED <<items, autoInc, logExists, log>>

\* A callback of fs.appendFile that answers a failed write on the response.
appendCallbackLoud(q, ok) ==
    IF ok THEN [q EXCEPT !.metric = "written"]
    ELSE [q EXCEPT !.metric = "failed", !.status = 500, !.body = <<"error", "metrics">>]

\* err => { if (err) console.error(...) }
appendCallback(q, ok) == [q EXCEPT !.metric = IF ok THEN "written" ELSE "failed"]

\* The file after a write that lands twice.
appendedTwice(file, r) ==
    file \o <<[req |-> r, endpoint |-> reqs[r].route], [req |-> r, endpoint |-> reqs[r].route]>>

\* The file after JSON.stringify(record) + '\n' is appended to it.
appended(file, r) == Append(file, [req |-> r, endpoint |-> reqs[r].route])

\* fs.appendFile completes: the record is at the end of the file, which is
\* created if it was missing, or the write failed and the file is as it was.
appendFile(r) ==
    /\ reqs[r].metric = "pending"
    /\ \E ok \in BOOLEAN :
          /\ SetReq(r, appendCallback(reqs[r], ok))
          /\ log' = IF ok THEN appended(log, r) ELSE log
          /\ logExists' = (logExists \/ ok)
    /\ UNCHANGED <<items, autoInc, completed>>

---------------------------------------------------------------------------
(* The route handlers.  Each is the handler's first statements, the        *)
(* statement it sends to the store and the callback of that statement.     *)

Handling(r, route) == reqs[r].pc = "handler" /\ reqs[r].route = route
Ran(q) == [q EXCEPT !.handlerRan = TRUE]

\* POST /login
loginResult(q0, username, password, err) ==
    LET q == Queried([Ran(q0) EXCEPT !.username = username, !.password = password], err)
        results == SelectToken(username, password)
    IN  IF err \/ results = {}
        THEN Respond(q, 401, <<"error", "Invalid credentials">>)
        ELSE Respond(q, 200, <<"token", (CHOOSE u \in results : TRUE).token>>)

LoginHandler(r) ==
    /\ Handling(r, "POST /login")
    /\ \E b \in LoginBodies, err \in BOOLEAN :
          SetReq(r, loginResult(reqs[r], b.username, b.password, err))
    /\ UNCHANGED <<items, autoInc, completed, logExists, log>>

\* GET /items
ItemsHandler(r) ==
    /\ Handling(r, "GET /items")
    /\ \E err \in BOOLEAN :
          LET q == ItemQueried(Ran(reqs[r]), err)
          IN  SetReq(r, IF err THEN Respond(q, 500, <<"error", "Database error">>)
                        ELSE Respond(q, 200, <<"items", items>>))
    /\ UNCHANGED <<items, autoInc, completed, logExists, log>>

\* GET /item, from the id of the query string
itemResult(q0, table, id, err) ==
    LET q == [Ran(q0) EXCEPT !.id = id]
    IN  IF FalsySeq(id) THEN Respond(q, 400, <<"error", "Missing ID parameter">>)
        ELSE IF isNaN(Val(id)) THEN Respond(q, 400, <<"error", "ID must be a number">>)
        ELSE LET q1 == ItemQueried(q, err)
                 results == SelectItem(table, SqlNumber(Val(id)))
             IN  IF err THEN Respond(q1, 500, <<"error", "Database error">>)
                 ELSE IF results = {} THEN Respond(q1, 404, <<"error", "Item not found">>)
                 ELSE Respond(q1, 200, <<"item", CHOOSE row \in results : TRUE>>)

ItemHandler(r) ==
    /\ Handling(r, "GET /item")
    /\ \E id \in IdParams, err \in BOOLEAN : SetReq(r, itemResult(reqs[r], items, id, err))
    /\ UNCHANGED <<items, autoInc, completed, logExists, log>>

\* GET /item/last
ItemLastHandler(r) ==
    /\ Handling(r, "GET /item/last")
    /\ \E err \in BOOLEAN :
          LET q == ItemQueried(Ran(reqs[r]), err)
              results == SelectLast(items)
          IN  SetReq(r, IF err THEN Respond(q, 500, <<"error", "Database error">>)
                        ELSE IF results = {} THEN Respond(q, 404, <<"error", "Item not found">>)
                        ELSE Respond(q, 200, <<"item", CHOOSE row \in results : TRUE>>))
    /\ UNCHANGED <<items, autoInc, completed, logExists, log>>


\* POST /items/create.  The counter stops at MaxId.
CreateHandler(r, bodies) ==
    /\ Handling(r, "POST /items/create")
    /\ autoInc <= MaxId
    /\ \E b \in bodies, err \in BOOLEAN :
          LET name == b.name
              value == b.value
              q == ItemQueried([Ran(reqs[r]) EXCEPT !.name = name, !.value = value], err)
          IN  IF err
              THEN /\ SetReq(r, Respond(q, 500, <<"error", "Error saving item">>))
                   /\ UNCHANGED <<items, autoInc>>
              ELSE /\ SetReq(r, Respond([q EXCEPT !.newId = AutoId(autoInc)], 201,
                                        <<"message", "Item created">>))
                   /\ items' = Insert(items, AutoId(autoInc), name, value)
                   /\ autoInc' = AutoNext(autoInc)
    /\ UNCHANGED <<completed, logExists, log>>

\* if (!id || !name || !value)
updateRejected(bid, name, value) == FalsyNum(bid) \/ FalsyText(name) \/ FalsyText(value)

\* PUT /item/update
UpdateHandler(r) ==
    /\ Handling(r, "PUT /item/update")
    /\ \E b \in UpdateBodies, err \in BOOLEAN :
          LET bid == b.id
              name == b.name
              value == b.value
              q == [Ran(reqs[r]) EXCEPT !.bid = bid, !.name = name, !.value = value]
              q1 == ItemQueried(q, err)
          IN  IF updateRejected(bid, name, value)
              THEN /\ SetReq(r, Respond(q, 400, <<"message", "Missing parameters">>))
                   /\ items' = items
              ELSE IF err
              THEN /\ SetReq(r, Respond(q1, 500, <<"message", "Error updating item">>))
                   /\ items' = items
              ELSE /\ SetReq(r, Respond(q1, 200, <<"message", "Item updated">>))
                   /\ items' = Update(items, Val(bid), name, value)
    /\ UNCHANGED <<autoInc, completed, logExists, log>>

\* DELETE /item/delete
DeleteHandler(r) ==
    /\ Handling(r, "DELETE /item/delete")
    /\ \E id \in IdParams, err \in BOOLEAN :
          LET q == [Ran(reqs[r]) EXCEPT !.id = id]
              q1 == ItemQueried(q, err)
          IN  IF FalsySeq(id) \/ isNaN(Val(id))
              THEN /\ SetReq(r, Respond(q, 400, <<"message", "Invalid ID">>))
                   /\ items' = items
              ELSE IF err
              THEN /\ SetReq(r, Respond(q1, 500, <<"message", "Error deleting item">>))
                   /\ items' = items
              ELSE LET left == Delete(items, SqlNumber(Val(id)))
                   IN  /\ SetReq(r, Respond([q1 EXCEPT !.removed = Cardinality(items \ left)],
                                            200, <<"message", "Item deleted">>))
                       /\ items' = left
    /\ UNCHANGED <<autoInc, completed, logExists, log>>

\* DELETE /item/last/delete: the SELECT of the last id and its callback, which
\* sends the DELETE.
DeleteLastSelect(r) ==
    /\ Handling(r, "DELETE /item/last/delete")
    /\ \E err \in BOOLEAN :
          LET q == ItemQueried(Ran(reqs[r]), err)
              results == SelectLast(items)
          IN  SetReq(r, IF err THEN Respond(q, 500, <<"message", "Database error">>)
                        ELSE IF results = {} THEN Respond(q, 404, <<"message", "No items found">>)
                        ELSE [q EXCEPT !.lastItemId = (CHOOSE row \in results : TRUE).id,
                                       !.pc = "delete"])
    /\ UNCHANGED <<items, autoInc, completed, logExists, log>>

\* DELETE /item/last/delete: the DELETE of that id and its callback.
DeleteLastDelete(r) ==
    /\ reqs[r].pc = "delete"
    /\ \E err \in BOOLEAN :
          LET q == ItemQueried(reqs[r], err)
              left == Delete(items, reqs[r].lastItemId)
          IN  IF err
              THEN /\ SetReq(r, Respond(q, 500, <<"message", "Error deleting last item">>))
                   /\ items' = items
              ELSE /\ SetReq(r, Respond([q EXCEPT !.removed = Cardinality(items \ left)],
                                        200, <<"message", "Last item deleted">>))
                   /\ items' = left
    /\ UNCHANGED <<autoInc, completed, logExists, log>>

\* POST /sort: the three functions, each on a copy of the list.
sortResult(q0, list) ==
    LET q == [Ran(q0) EXCEPT !.list = list]
    IN  IF list = None
        THEN Respond(q, 400, <<"error", "Invalid input: List must be an array">>)
        ELSE Respond(q, 200, [bubbleSort |-> bubbleSort(Val(list)),
                              quickSort |-> quickSort(Val(list)),
                              binarySort |-> binaryInsertionSort(Val(list))])

SortHandler(r, lists) ==
    /\ Handling(r, "POST /sort")
    /\ \E list \in lists : SetReq(r, sortResult(reqs[r], list))
    /\ UNCHANGED <<items, autoInc, completed, logExists, log>>

\* GET /health
HealthHandler(r) ==
    /\ Handling(r, "GET /health")
    /\ \E err \in BOOLEAN :
          LET q == Queried(Ran(reqs[r]), err)
          IN  SetReq(r, IF err THEN Respond(q, 500, <<"text", "Database not OK">>)
                        ELSE Respond(q, 200, <<"text", "OK">>))
    /\ UNCHANGED <<items, autoInc, completed, logExists, log>>

\* GET /metrics/delete: fs.unlink and its callback.  It fails when the file is
\* missing, and may fail otherwise.
MetricsDeleteHandler(r) ==
    /\ Handling(r, "GET /metrics/delete")
    /\ \E fsErr \in BOOLEAN :
          IF ~logExists \/ fsErr
          THEN /\ SetReq(r, Respond(Ran(reqs[r]), 500,
                                    <<"error", "Failed to delete performance metrics">>))
               /\ UNCHANGED <<logExists, log>>
          ELSE /\ SetReq(r, Respond(Ran(reqs[r]), 200,
                                    <<"message", "Performance metrics deleted">>))
               /\ logExists' = FALSE
               /\ log' = <<>>
    /\ UNCHANGED <<items, autoInc, completed>>

---------------------------------------------------------------------------
(* The specifications. *)

\* The service has started: n requests are to come, the table holds some of
\* the rows Rows0 and has assigned their ids, and the log file is missing.
InitWith(n) ==
    /\ items \in SUBSET Rows0
    /\ autoInc = 3
    /\ reqs = [r \in 1..n |-> Idle]
    /\ completed = <<>>
    /\ logExists = FALSE
    /\ log = <<>>

\* Spec: requests to every route, in flight together.
Init == InitWith(MaxReq)

Next ==
    \E r \in DOMAIN reqs :
        \/ Receive(r, Routes)
        \/ authMiddleware(r, Headers)
        \/ Finish(r)
        \/ appendFile(r)
        \/ LoginHandler(r)
        \/ ItemsHandler(r)
        \/ ItemHandler(r)
        \/ ItemLastHandler(r)
        \/ CreateHandler(r, CreateBodies)
        \/ UpdateHandler(r)
        \/ DeleteHandler(r)
        \/ DeleteLastSelect(r)
        \/ DeleteLastDelete(r)
        \/ SortHandler(r, FewLists)
        \/ HealthHandler(r)
        \/ MetricsDeleteHandler(r)

Spec == Init /\ [][Next]_vars

\* SpecSeq: creates and deletes of the last item by one user, each request
\* received when the one before it has finished.
SeqRoutes == {"POST /items/create", "DELETE /item/last/delete"}
SeqBodies == { [name |-> Some("C"), value |-> Some("w")],
               [name |-> Some("D"), value |-> Some("")] }

InitSeq == InitWith(MaxSeqReq)

NextSeq ==
    \E r \in DOMAIN reqs :
        \/ ReceiveSeq(r, SeqRoutes)
        \/ authMiddleware(r, ValidHeaders)
        \/ Finish(r)
        \/ appendFile(r)
        \/ CreateHandler(r, SeqBodies)
        \/ DeleteLastSelect(r)
        \/ DeleteLastDelete(r)

SpecSeq == InitSeq /\ [][NextSeq]_vars

\* SpecSort: one POST /sort of one user, with every list of SortLists.
InitSort == InitWith(1)

NextSort ==
    \E r \in DOMAIN reqs :
        \/ Receive(r, {"POST /sort"})
        \/ authMiddleware(r, ValidHeaders)
        \/ SortHandler(r, SortLists)
        \/ Finish(r)
        \/ appendFile(r)

SpecSort == InitSort /\ [][NextSort]_vars

---------------------------------------------------------------------------
(* The claims. *)

Answered(q) == q.pc \in {"sent", "done"}

IsSorted(s) == \A i \in 1..(Len(s) - 1) : s[i] <= s[i + 1]
Count(s, v) == Cardinality({i \in 1..Len(s) : s[i] = v})
\* s is the list l in non-decreasing order.
SortedOf(l, s) ==
    /\ Len(s) = Len(l)
    /\ IsSorted(s)
    /\ \A i \in 1..Len(l) : Count(s, l[i]) = Count(l, l[i])

\* C1: every POST /sort answered 200 carries three sortedLists, each the
\* request's list in non-decreasing order (the same elements, as many times
\* each), so the three are equal.
C1_SortsReturnSortedInput ==
    \A r \in DOMAIN reqs :
        (reqs[r].route = "POST /sort" /\ reqs[r].status = 200) =>
            LET l == Val(reqs[r].list)
                b == reqs[r].body
            IN  /\ SortedOf(l, b.bubbleSort)
                /\ SortedOf(l, b.quickSort)
                /\ SortedOf(l, b.binarySort)
                /\ b.bubbleSort = b.quickSort
                /\ b.quickSort = b.binarySort

\* A list of the greatest length, out of order and with a value twice, has
\* been sorted.
C1_Witness ==
    \E r \in DOMAIN reqs :
        /\ reqs[r].route = "POST /sort"
        /\ reqs[r].status = 200
        /\ LET l == Val(reqs[r].list)
           IN  /\ Len(l) = MaxLen
               /\ ~IsSorted(l)
               /\ \E i, j \in 1..Len(l) : i < j /\ l[i] = l[j]
               /\ l[1] > l[Len(l)]

\* The token a header carries: what follows 'Bearer ', when it starts with it.
CarriedToken(h) ==
    IF IsSome(h) /\ startsWith(Val(h), Bearer) THEN Some(substring(Val(h), 7)) ELSE None
KnownToken(t) == \E u \in Users : u.token = t
\* The request's token lookup was failed by the store.
LookupFailed(q) == q.storeErr /\ q.queries = 1 /\ ~q.handlerRan
ReachedHandler(q) == q.pc = "handler" \/ q.handlerRan

\* C2: on a route behind authMiddleware, once the gate has acted on a request
\* and the store has answered its lookup (a lookup the store fails is C5's
\* case): with no header, a header that does not start with 'Bearer ', or a
\* token of no user, the answer is 401, the handler has not run and no
\* statement on items was sent for it; with a user's token the request has
\* reached the handler and req.user is that user's name.
C2_AuthGate ==
    \A r \in DOMAIN reqs :
        LET q == reqs[r]
            t == CarriedToken(q.header)
        IN  (q.route \in AuthRoutes /\ q.pc \notin {"idle", "auth"} /\ ~LookupFailed(q)) =>
                IF t = None \/ ~KnownToken(Val(t))
                THEN /\ q.status = 401
                     /\ Answered(q)
                     /\ ~q.handlerRan
                     /\ q.itemOps = 0
                ELSE /\ ReachedHandler(q)
                     /\ \E u \in Users : u.token = Val(t) /\ q.user = u.username

\* One request was let through with alice's token and its handler ran, and
\* another, with a token of no user, was answered 401.
C2_Witness ==
    \E r, p \in DOMAIN reqs :
        /\ reqs[r].route \in AuthRoutes
        /\ reqs[r].header = Some(Bearer \o Tok1)
        /\ reqs[r].handlerRan
        /\ reqs[r].user = "alice"
        /\ reqs[p].route \in AuthRoutes
        /\ reqs[p].header = Some(Bearer \o <<"z">>)
        /\ reqs[p].status = 401


\* Nothing is in flight: every request received has finished and no append
\* is pending.
Settled == \A r \in DOMAIN reqs : reqs[r].pc \in {"idle", "done"} /\ reqs[r].metric # "pending"
LogReqs == [i \in 1..Len(log) |-> log[i].req]
NoPurge == \A r \in DOMAIN reqs : ~(reqs[r].route = "GET /metrics/delete" /\ reqs[r].status = 200)

\* C3 as stated: when nothing is in flight, the log holds one record for each
\* completed request, in the order the requests completed.
C3_OneRecordPerRequestInOrder == Settled => LogReqs = completed

\* C3, amended: a request reaches performanceLoggingMiddleware when its route
\* is registered with it and, behind authMiddleware, the gate let it through;
\* an append has been started for exactly the finished requests that reached
\* it; every record in the log is of a request whose append succeeded, no
\* request has two, and until GET /metrics/delete removes the file every
\* request whose append succeeded has its record.
C3_OneAppendPerLoggedRequest ==
    /\ \A r \in DOMAIN reqs :
          LET q == reqs[r]
          IN  /\ q.perf <=> \/ q.route \in PerfOnlyRoutes
                            \/ q.route \in AuthRoutes /\ ReachedHandler(q)
              /\ (q.metric # "none") <=> (q.pc = "done" /\ q.perf)
              /\ (NoPurge /\ q.metric = "written") => \E i \in 1..Len(log) : log[i].req = r
    /\ \A i \in 1..Len(log) :
          /\ reqs[log[i].req].metric = "written"
          /\ log[i].endpoint = reqs[log[i].req].route
    /\ \A i, j \in 1..Len(log) : i # j => log[i].req # log[j].req

\* Two requests have completed, first 1 then 2, both records are in the log,
\* and the record of 2 is the first.
C3_Witness == Settled /\ completed = <<1, 2>> /\ LogReqs = <<2, 1>>

\* C5 as stated: the step in which the store fails a request's query answers
\* the request 500 and leaves the table as it was, and the request sends no
\* query after it.
C5_StoreFailureAnswers500 ==
    [][\A r \in DOMAIN reqs :
          /\ (~reqs[r].storeErr /\ reqs'[r].storeErr) =>
                /\ Answered(reqs'[r])
                /\ reqs'[r].status = 500
                /\ items' = items
          /\ reqs[r].storeErr => reqs'[r].queries = reqs[r].queries]_vars

\* C9: an append is started for a request only when its response has
\* finished; the step in which the append succeeds or fails, and every step
\* after the response has finished, leaves the response's status and body as
\* they were and the request finished; the append ends written or failed.
C9_MetricsBestEffort ==
    /\ [](\A r \in DOMAIN reqs : reqs[r].metric # "none" => reqs[r].pc = "done")
    /\ [][\A r \in DOMAIN reqs :
             /\ reqs[r].pc = "done" =>
                   /\ reqs'[r].pc = "done"
                   /\ reqs'[r].status = reqs[r].status
                   /\ reqs'[r].body = reqs[r].body
                   /\ reqs'[r].storeErr = reqs[r].storeErr
             /\ (reqs[r].metric = "pending" /\ reqs'[r].metric # "pending") =>
                   reqs'[r].metric \in {"written", "failed"}
             /\ reqs[r].metric \in {"written", "failed"} => reqs'[r].metric = reqs[r].metric]_vars

\* A request answered 200 whose append failed, beside one whose append
\* succeeded.
C9_Witness ==
    \E r, p \in DOMAIN reqs :
        /\ reqs[r].metric = "failed" /\ reqs[r].status = 200
        /\ reqs[p].metric = "written" /\ reqs[p].status = 200 /\ reqs[p].route = reqs[r].route

\* C10 as stated: every DELETE /item/last/delete answered 200 has removed one
\* row, so the rows removed are as many as the 200 answers.
C10_DeleteLastRemovesOneRow ==
    \A r \in DOMAIN reqs :
        (reqs[r].route = "DELETE /item/last/delete" /\ reqs[r].status = 200) =>
            reqs[r].removed = 1


\* A text that is a number written in digits, blanks around it aside.
NumericText(s) == Trim(s) # <<>> /\ AllDigits(Trim(s))
RowsWithId(table, n) == {row \in table : row.id = n}

\* C6 as stated: the step in which GET /item is handed an id and answers,
\* the store answering if asked: with no id, or an id that is not a number,
\* the answer is 400 and the store was not asked; with a number that is no
\* row's id it is 404, with a row's id it is 200 and that row; the table is
\* as it was.
C6_GetItemById ==
    [][\A r \in DOMAIN reqs :
          (Handling(r, "GET /item") /\ Answered(reqs'[r]) /\ ~reqs'[r].storeErr) =>
              LET q == reqs'[r]
              IN  /\ items' = items
                  /\ IF q.id = None \/ ~NumericText(Val(q.id))
                     THEN q.status = 400 /\ q.queries = reqs[r].queries
                     ELSE LET rows == RowsWithId(items, DigitsToNat(Trim(Val(q.id))))
                          IN  IF rows = {} THEN q.status = 404
                              ELSE /\ q.status = 200
                                   /\ q.body = <<"item", CHOOSE row \in rows : TRUE>>]_vars

\* C7: the step in which POST /items/create answers 201 adds one row to the
\* table and changes no other; the row's id is the id of no row the table
\* held; and for a body with name and value, GET /item with that id in
\* decimal, the store answering, is then answered 200 with that id and the
\* body's name and value.
C7_CreateThenGetRoundTrips ==
    [][\A r \in DOMAIN reqs :
          (Handling(r, "POST /items/create") /\ reqs'[r].status = 201) =>
              LET q == reqs'[r]
                  got == itemResult(Idle, items', Some(NatToStr(q.newId)), FALSE)
              IN  /\ RowsWithId(items, q.newId) = {}
                  /\ items \subseteq items'
                  /\ Cardinality(items' \ items) = 1
                  /\ \A row \in items' \ items : row.id = q.newId
                  /\ (IsSome(q.name) /\ IsSome(q.value)) =>
                        /\ got.status = 200
                        /\ got.body = <<"item", [id |-> q.newId, name |-> q.name,
                                                 value |-> q.value]>>]_vars

\* An item with an empty name and an empty value was created in a table that
\* held two rows.
C7_Witness ==
    \E r \in DOMAIN reqs :
        /\ reqs[r].route = "POST /items/create"
        /\ reqs[r].status = 201
        /\ reqs[r].name = Some("") /\ reqs[r].value = Some("")
        /\ Cardinality(items) = 3

\* C8 as stated: the step in which PUT /item/update answers, the store
\* answering if asked: with id, name or value missing from the body the
\* answer is 400 and the table is as it was; with the three present it is
\* 200 'Item updated' and the table is as it was but for the name and value
\* of the row with that id, if there is one.
C8_UpdateItem ==
    [][\A r \in DOMAIN reqs :
          (Handling(r, "PUT /item/update") /\ Answered(reqs'[r]) /\ ~reqs'[r].storeErr) =>
              LET q == reqs'[r]
              IN  IF q.bid = None \/ q.name = None \/ q.value = None
                  THEN q.status = 400 /\ items' = items
                  ELSE /\ q.status = 200
                       /\ q.body = <<"message", "Item updated">>
                       /\ items' = {IF row.id = Val(q.bid)
                                    THEN [id |-> row.id, name |-> q.name, value |-> q.value]
                                    ELSE row : row \in items}]_vars

\* The requests a, a + 1, a + 2 are a create, a create and a delete of the
\* last item, answered 201, 201 and 200, and no later request has been handled.
CreateCreateDeleteLast(a) ==
    /\ a + 2 \in DOMAIN reqs
    /\ reqs[a].route = "POST /items/create" /\ reqs[a].status = 201
    /\ reqs[a + 1].route = "POST /items/create" /\ reqs[a + 1].status = 201
    /\ reqs[a + 2].route = "DELETE /item/last/delete" /\ reqs[a + 2].status = 200
    /\ \A p \in DOMAIN reqs : p > a + 2 => ~reqs[p].handlerRan

GetById(n) == itemResult(Idle, items, Some(NatToStr(n)), FALSE)

\* C4: with each request received when the one before it has finished, after
\* create A, create B and delete-last, GET /item with B's id is answered 404
\* and with A's id 200 with A's name and value; and the step in which
\* delete-last finds the table empty, the store answering, answers 404 and
\* leaves it empty.
C4_DeleteLastRemovesB ==
    /\ [](\A a \in DOMAIN reqs :
             CreateCreateDeleteLast(a) =>
                 /\ GetById(reqs[a + 1].newId).status = 404
                 /\ GetById(reqs[a].newId).status = 200
                 /\ GetById(reqs[a].newId).body =
                        <<"item", [id |-> reqs[a].newId, name |-> reqs[a].name,
                                   value |-> reqs[a].value]>>)
    /\ [][\A r \in DOMAIN reqs :
             (Handling(r, "DELETE /item/last/delete") /\ items = {}
              /\ reqs'[r].pc # "handler" /\ ~reqs'[r].storeErr) =>
                 /\ Answered(reqs'[r])
                 /\ reqs'[r].status = 404
                 /\ items' = {}]_vars

\* Create A, create B and delete-last have been answered 201, 201 and 200 on
\* a table that held two rows.
C4_Witness == CreateCreateDeleteLast(1) /\ Cardinality(items) = 3 /\ reqs[3].pc = "done"

===========================================================================
